---- MODULE Spec2Model ----
(***************************************************************************)
(* MWD (.guh) to DIGGS XML conversion.                                     *)
(*                                                                         *)
(* Two programs of the repository are modelled:                            *)
(*   "hatlapa"  Hatlapa_Format(.guh)/converter.py : main, parse_input_file,*)
(*              create_diggs_xml and its add_* steps;                      *)
(*   "legacy"   converter.py : the module-level script.                    *)
(*                                                                         *)
(* A Python str is a sequence of one-character strings, so that strip,     *)
(* split, startswith, join and float are computed, not assumed.  A float   *)
(* is an integer number of hundredths; the numerals of the inputs carry at *)
(* most two fraction digits, so parsing and the .2f rendering are exact.   *)
(***************************************************************************)
EXTENDS Integers, Sequences, FiniteSets, TLC

(***************************************************************************)
(* Bounds of the model.                                                    *)
(***************************************************************************)
MaxLines == 5
MaxRows == 3
MaxLegacyLines == 8
MaxTimeRows == 7
MaxTwiceRows == 2

(***************************************************************************)
(* String literals of the source.                                          *)
(***************************************************************************)
HEADER_MARK == <<"[", "H", "E", "A", "D", "E", "R", "]">>
PARAMETER_MARK == <<"[", "P", "A", "R", "A", "M", "E", "T", "E", "R", "]">>
DATA_MARK == <<"[", "D", "A", "T", "A", "]">>
FOOTER_MARK == <<"[", "F", "O", "O", "T", "E", "R", "]">>
Datum == <<"D", "a", "t", "u", "m">>
Depth == <<"D", "e", "p", "t", "h">>
Unknown == <<"U", "n", "k", "n", "o", "w", "n">>
Latitude_Modem == <<"L", "a", "t", "i", "t", "u", "d", "e", "_", "M", "o", "d", "e", "m">>
Longitude_Modem == <<"L", "o", "n", "g", "i", "t", "u", "d", "e", "_", "M", "o", "d", "e", "m">>
Altitude_Modem == <<"A", "l", "t", "i", "t", "u", "d", "e", "_", "M", "o", "d", "e", "m">>
Client == <<"C", "l", "i", "e", "n", "t">>
BoreholeID == <<"B", "o", "r", "e", "h", "o", "l", "e", "I", "D">>
Contractor == <<"C", "o", "n", "t", "r", "a", "c", "t", "o", "r">>
RockCoreSize_inch == <<"R", "o", "c", "k", "C", "o", "r", "e", "S", "i", "z", "e", "(", "i", "n", "c", "h", ")">>
ID == <<"I", "D">>
RateOfPenetration == <<"R", "a", "t", "e", "O", "f", "P", "e", "n", "e", "t", "r", "a", "t", "i", "o", "n">>
RotationShaft == <<"R", "o", "t", "a", "t", "i", "o", "n", "S", "h", "a", "f", "t">>
RotationTool == <<"R", "o", "t", "a", "t", "i", "o", "n", "T", "o", "o", "l">>
Flow == <<"F", "l", "o", "w">>
Fow == <<"F", "o", "w">>
PressureFlush == <<"P", "r", "e", "s", "s", "u", "r", "e", "F", "l", "u", "s", "h">>
PressurePulldown == <<"P", "r", "e", "s", "s", "u", "r", "e", "P", "u", "l", "l", "d", "o", "w", "n">>
RotationTach == <<"R", "o", "t", "a", "t", "i", "o", "n", "T", "a", "c", "h">>
TorqueTach == <<"T", "o", "r", "q", "u", "e", "T", "a", "c", "h">>
Gear == <<"G", "e", "a", "r">>
AugerOD == <<"A", "u", "g", "e", "r", "O", "D">>
RockCoreSize == <<"R", "o", "c", "k", "C", "o", "r", "e", "S", "i", "z", "e">>
StopDepth == <<"S", "t", "o", "p", "D", "e", "p", "t", "h">>
ID_PREFIX == <<"i", "d", "_">>
CASING_SUFFIX == <<"_", "c", "a", "s", "i", "n", "g", "1">>
CONS_METHOD_SUFFIX == <<"_", "c", "o", "n", "s", "_", "m", "e", "t", "h", "o", "d", "1">>
CONS_METHOD_LE_SUFFIX == <<"_", "c", "o", "n", "s", "_", "m", "e", "t", "h", "o", "d", "1", "_", "l", "e">>
P1 == <<"p", "1">>
PROP == <<"p", "r", "o", "p">>
DefaultCoordinates == <<"0", ".", "0", "0", "0", "0", "0", "0", " ", "0", ".", "0", "0", "0", "0", "0", "0", " ", "0", ".", "0", "0">>
DefaultEndAltitude == <<"-", "1", "0", ".", "0">>
PlaceholderPrefix == <<"1", "9", "0", "0", "-", "0", "1", "-", "0", "1", "T", "0", "0", ":", "0", "0", ":">>
TimeGroupSeparator == <<"\n", " ", " ", " ", " ", " ", " ", " ", " ", " ", " ", " ", " ", " ", " ", " ", " ">>
DefaultTimestamp == <<"1", "9", "0", "0", "-", "0", "1", "-", "0", "1", "T", "0", "0", ":", "0", "0", ":", "0", "0">>
DefaultDataValues == <<"0", ".", "0", ",", "0", ".", "0">>
ZeroValue == <<"0", ".", "0">>
CoordinateKeys == {Latitude_Modem, Longitude_Modem, Altitude_Modem}

(***************************************************************************)
(* Python str methods.                                                     *)
(***************************************************************************)
Whitespace == {" ", "\t", "\n"}

RECURSIVE LStrip(_)
LStrip(s) ==
    IF s # << >> /\ Head(s) \in Whitespace THEN LStrip(Tail(s)) ELSE s

RECURSIVE RStrip(_)
RStrip(s) ==
    IF s # << >> /\ s[Len(s)] \in Whitespace
    THEN RStrip(SubSeq(s, 1, Len(s) - 1))
    ELSE s

\* str.strip()
Strip(s) == LStrip(RStrip(s))

\* str.startswith(prefix)
StartsWith(s, prefix) ==
    Len(s) >= Len(prefix) /\ SubSeq(s, 1, Len(prefix)) = prefix

\* c in s
Contains(s, c) == \E i \in 1..Len(s) : s[i] = c

\* str.find(c) + 1: position of the first c, 0 when there is none
Find(s, c) ==
    IF Contains(s, c)
    THEN CHOOSE i \in 1..Len(s) : s[i] = c /\ \A j \in 1..(i - 1) : s[j] # c
    ELSE 0

\* str.split(sep): every occurrence of sep cuts; never the empty list
RECURSIVE Split(_, _)
Split(s, sep) ==
    LET i == Find(s, sep)
    IN  IF i = 0
        THEN <<s>>
        ELSE <<SubSeq(s, 1, i - 1)>> \o Split(SubSeq(s, i + 1, Len(s)), sep)

\* str.split(sep, 1): the first occurrence of sep cuts, and no other
SplitFirst(s, sep) ==
    LET i == Find(s, sep)
    IN  IF i = 0
        THEN <<s>>
        ELSE <<SubSeq(s, 1, i - 1), SubSeq(s, i + 1, Len(s))>>

\* str.split(): runs of whitespace cut, empty tokens are dropped
RECURSIVE SplitWhitespace(_)
SplitWhitespace(s) ==
    LET t == LStrip(s)
    IN  IF t = << >>
        THEN << >>
        ELSE LET ws == {i \in 1..Len(t) : t[i] \in Whitespace}
                 e  == IF ws = {} THEN Len(t) + 1
                       ELSE CHOOSE i \in ws : \A j \in ws : i <= j
             IN  <<SubSeq(t, 1, e - 1)>> \o SplitWhitespace(SubSeq(t, e, Len(t)))

\* sep.join(parts)
RECURSIVE Join(_, _)
Join(parts, sep) ==
    IF parts = << >> THEN << >>
    ELSE IF Len(parts) = 1 THEN parts[1]
    ELSE parts[1] \o sep \o Join(Tail(parts), sep)

\* str.lstrip('0')
RECURSIVE LStripZeros(_)
LStripZeros(s) ==
    IF s # << >> /\ Head(s) = "0" THEN LStripZeros(Tail(s)) ELSE s

\* str.replace(' ', '')
RECURSIVE RemoveSpaces(_)
RemoveSpaces(s) ==
    IF s = << >> THEN << >>
    ELSE IF Head(s) = " " THEN RemoveSpaces(Tail(s))
    ELSE <<Head(s)>> \o RemoveSpaces(Tail(s))

\* seq[:n]
Take(seq, n) == SubSeq(seq, 1, IF n < Len(seq) THEN n ELSE Len(seq))

\* seq[n:] with a 0-based n
Drop(seq, n) == SubSeq(seq, n + 1, Len(seq))

Min(a, b) == IF a < b THEN a ELSE b

(***************************************************************************)
(* dict: a function whose domain is the set of keys present.               *)
(***************************************************************************)
EmptyDict == [k \in {} |-> << >>]

\* d[key] = value
DictSet(d, key, value) ==
    [k \in (DOMAIN d) \cup {key} |-> IF k = key THEN value ELSE d[k]]

\* d.get(key, default)
DictGet(d, key, default) == IF key \in DOMAIN d THEN d[key] ELSE default

(***************************************************************************)
(* float(str), abs, max and the renderings of a float.                     *)
(***************************************************************************)
DigitChars == <<"0", "1", "2", "3", "4", "5", "6", "7", "8", "9">>
IsDigit(c) == \E i \in 1..10 : DigitChars[i] = c
DigitVal(c) == (CHOOSE i \in 1..10 : DigitChars[i] = c) - 1
AllDigits(s) == \A i \in 1..Len(s) : IsDigit(s[i])

\* the numeral without its sign, after strip()
Unsigned(s) ==
    LET t == Strip(s)
    IN  IF t # << >> /\ Head(t) \in {"+", "-"} THEN Tail(t) ELSE t

\* float(s) does not raise ValueError: a decimal literal [sign] digits [. digits]
IsFloat(s) ==
    LET u  == Unsigned(s)
        p  == SplitFirst(u, ".")
        ip == p[1]
        fp == IF Len(p) = 2 THEN p[2] ELSE << >>
    IN  /\ AllDigits(ip) /\ AllDigits(fp)
        /\ Len(ip) + Len(fp) >= 1

RECURSIVE DigitsVal(_)
DigitsVal(s) ==
    IF s = << >> THEN 0
    ELSE 10 * DigitsVal(SubSeq(s, 1, Len(s) - 1)) + DigitVal(s[Len(s)])

\* float(s), in hundredths
Float(s) ==
    LET t   == Strip(s)
        u   == Unsigned(s)
        p   == SplitFirst(u, ".")
        fp  == IF Len(p) = 2 THEN p[2] ELSE << >>
        fp2 == Take(fp \o <<"0", "0">>, 2)
        mag == 100 * DigitsVal(p[1]) + DigitsVal(fp2)
    IN  IF t # << >> /\ Head(t) = "-" THEN 0 - mag ELSE mag

Abs(v) == IF v < 0 THEN 0 - v ELSE v

\* max(values) of a non-empty list
RECURSIVE MaxOf(_)
MaxOf(values) ==
    IF Len(values) = 1 THEN values[1]
    ELSE LET m == MaxOf(Tail(values))
         IN  IF m > values[1] THEN m ELSE values[1]

RECURSIVE NatToStr(_)
NatToStr(n) ==
    IF n < 10 THEN <<DigitChars[n + 1]>>
    ELSE NatToStr(n \div 10) \o <<DigitChars[(n % 10) + 1]>>

\* f'{v:.2f}'
Format2f(v) ==
    LET a == Abs(v)
    IN  (IF v < 0 THEN <<"-">> ELSE << >>)
        \o NatToStr(a \div 100) \o <<".">>
        \o <<DigitChars[((a % 100) \div 10) + 1], DigitChars[(a % 10) + 1]>>

\* str(v) of a float: the shortest fraction, at least one digit (the digits a
\* binary float adds behind them, as in 7.300000000000001, are not modelled)
FloatStr(v) ==
    LET a == Abs(v)
    IN  (IF v < 0 THEN <<"-">> ELSE << >>)
        \o NatToStr(a \div 100) \o <<".">>
        \o (IF a % 10 = 0
            THEN <<DigitChars[((a % 100) \div 10) + 1]>>
            ELSE <<DigitChars[((a % 100) \div 10) + 1], DigitChars[(a % 10) + 1]>>)

(***************************************************************************)
(* The input files: sequences of lines over this vocabulary.               *)
(***************************************************************************)
L_blank == <<" ">>
L_altitude == Altitude_Modem \o <<"=", "0", "0", "5">>
L_rock == RockCoreSize_inch \o <<"=", "r", "a", "t", "i", "o", "=", "1", ".", "5">>
L_kv == <<" ", "k", " ", "=", " ", "v", " ">>
L_names == Datum \o <<";">> \o Depth \o <<";", "F">>
L_units == <<"-", ";", "m">>
L_row0 == <<"t", "0", ";", "5", ".", "0">>
L_row3 == <<"t", "3", ";", "-", "2", ";", "7">>
L_short == <<"x">>
L_footer == FOOTER_MARK \o <<" ">>
L_altitude_sp == Altitude_Modem \o <<"=", " ", "0", "0", "5">>

Lines ==
    { HEADER_MARK, PARAMETER_MARK, DATA_MARK, L_footer, L_blank,
      L_altitude, L_rock, L_kv, L_names, L_units, L_row0, L_row3, L_short,
      L_altitude_sp }

(***************************************************************************)
(* State.                                                                  *)
(***************************************************************************)
VARIABLES
    pc,              \* position in main / parse_input_file / create_diggs_xml
    entry,           \* the function called: "main" or "create_diggs_xml"
    input_file,      \* "ok", "missing" (os.path.exists is False), "unreadable"
    section,         \* parse loop: the current section
    header_data,     \* dict key -> value
    parameter_data,  \* dict with the keys parameter_names, parameter_units
    data_rows,       \* list of rows, a row is a list of str
    line,            \* the line read last, as it is in the file
    line_num,        \* number of lines read
    in_footer,       \* history: the last section marker of the file was [FOOTER]
    root,            \* the document: the children of the Diggs element
    max_depth,       \* legacy script: the global max_depth, in hundredths
    returned,        \* main's return value, "none" until it returns
    output_file      \* "absent", or what was written to output_file_path;
                     \* of two calls of create_diggs_xml, the first document

vars == <<pc, entry, input_file, section, header_data, parameter_data,
          data_rows, line, line_num, in_footer, root, max_depth, returned,
          output_file>>

(***************************************************************************)
(* parse_input_file: one line of the loop.                                 *)
(***************************************************************************)
\* the section after the line s (stripped)
NextSection(sec, s) ==
    IF StartsWith(s, HEADER_MARK) THEN "header"
    ELSE IF StartsWith(s, PARAMETER_MARK) THEN "parameter"
    ELSE IF StartsWith(s, DATA_MARK) THEN "data"
    ELSE sec

\* s is one of the lines the if/elif chain consumes before the dispatch
IsMarkerOrBlank(s) ==
    \/ StartsWith(s, HEADER_MARK)
    \/ StartsWith(s, PARAMETER_MARK)
    \/ StartsWith(s, DATA_MARK)
    \/ s = << >>

\* value.lstrip('0') or '0'
StripLeadingZeros(value) ==
    IF LStripZeros(value) = << >> THEN <<"0">> ELSE LStripZeros(value)

\* section == 'header'
HeaderLine(hd, s) ==
    IF Contains(s, "=")
    THEN LET parts == SplitFirst(s, "=")
             key   == parts[1]
             value == IF Strip(key) \in CoordinateKeys
                      THEN StripLeadingZeros(parts[2])
                      ELSE parts[2]
         IN  IF Len(parts) = 2
             THEN DictSet(hd, Strip(key), Strip(value))
             ELSE hd
    ELSE hd

\* section == 'parameter'
ParameterLine(pd, s) ==
    IF "parameter_names" \notin DOMAIN pd
    THEN DictSet(pd, "parameter_names", Split(s, ";"))
    ELSE IF "parameter_units" \notin DOMAIN pd
    THEN DictSet(pd, "parameter_units", Split(s, ";"))
    ELSE pd

\* section == 'data'
DataLine(rows, s) ==
    IF StartsWith(s, Datum) THEN rows
    ELSE IF Len(Split(s, ";")) >= 2 THEN Append(rows, Split(s, ";"))
    ELSE rows

\* history: the file position is behind a [FOOTER] line and before any
\* other section marker
FooterAfter(f, s) ==
    IF StartsWith(s, FOOTER_MARK) THEN TRUE
    ELSE IF \/ StartsWith(s, HEADER_MARK)
            \/ StartsWith(s, PARAMETER_MARK)
            \/ StartsWith(s, DATA_MARK) THEN FALSE
    ELSE f

ReadLine(l) ==
    /\ pc = "loop"
    /\ line_num < MaxLines
    /\ LET s == Strip(l)
           dispatch == ~IsMarkerOrBlank(s)
       IN  /\ section' = NextSection(section, s)
           /\ header_data' =
                IF dispatch /\ section = "header"
                THEN HeaderLine(header_data, s) ELSE header_data
           /\ parameter_data' =
                IF dispatch /\ section = "parameter"
                THEN ParameterLine(parameter_data, s) ELSE parameter_data
           /\ data_rows' =
                IF dispatch /\ section = "data"
                THEN DataLine(data_rows, s) ELSE data_rows
           /\ in_footer' = FooterAfter(in_footer, s)
    /\ line' = l
    /\ line_num' = line_num + 1
    /\ UNCHANGED <<pc, entry, input_file, root, max_depth, returned, output_file>>

\* for line_num, line in enumerate(file, 1)
Loop == pc = "loop" /\ \E l \in Lines : ReadLine(l)

\* line 37: the next line of the file cannot be decoded; the iterator raises
\* outside the try of line 38, into the except clause of line 105
DecodeError ==
    /\ pc = "loop"
    /\ line_num < MaxLines
    /\ pc' = "except"
    /\ UNCHANGED <<entry, input_file, section, header_data, parameter_data,
                   data_rows, line, line_num, in_footer, root, max_depth,
                   returned, output_file>>

(***************************************************************************)
(* parse_input_file: after the loop.                                       *)
(***************************************************************************)
DefaultParameters ==
    [k \in {"parameter_names", "parameter_units"} |->
        IF k = "parameter_names" THEN <<Datum, Depth>> ELSE <<<<"-">>, <<"m">>>>]

DefaultRows == <<<<DefaultTimestamp, ZeroValue>>>>

\* the ValueError of line 84 is raised
MissingParameters(pd) ==
    \/ pd = EmptyDict
    \/ "parameter_names" \notin DOMAIN pd
    \/ "parameter_units" \notin DOMAIN pd

\* a variant of TruncateParameters that cuts the names only
TruncateNamesOnly(pd) ==
    LET min_length == Min(Len(pd["parameter_names"]), Len(pd["parameter_units"]))
    IN  [k \in DOMAIN pd |->
            IF k = "parameter_names" THEN Take(pd[k], min_length) ELSE pd[k]]

\* lines 87-96: both lists cut to the shorter length
TruncateParameters(pd) ==
    LET min_length == Min(Len(pd["parameter_names"]), Len(pd["parameter_units"]))
    IN  [k \in DOMAIN pd |-> Take(pd[k], min_length)]

\* the except clause, lines 105-111
FallbackParameters(pd) == IF pd = EmptyDict THEN DefaultParameters ELSE pd
FallbackRows(rows) == IF rows = << >> THEN DefaultRows ELSE rows

\* parameter_data as parse_input_file returns it
ReturnedParameters(pd) ==
    IF MissingParameters(pd) THEN FallbackParameters(pd) ELSE TruncateParameters(pd)

\* data_rows as parse_input_file returns it
ReturnedRows(pd, rows) ==
    IF MissingParameters(pd) THEN FallbackRows(rows) ELSE rows

\* lines 105-113, entered from the loop
ExceptClause ==
    /\ pc = "except"
    /\ parameter_data' = FallbackParameters(parameter_data)
    /\ data_rows' = FallbackRows(data_rows)
    /\ pc' = "parsed"
    /\ UNCHANGED <<entry, input_file, section, header_data, line, line_num,
                   in_footer, root, max_depth, returned, output_file>>

EndOfFile ==
    /\ pc = "loop"
    /\ parameter_data' = ReturnedParameters(parameter_data)
    /\ data_rows' = ReturnedRows(parameter_data, data_rows)
    /\ pc' = "parsed"
    /\ UNCHANGED <<entry, input_file, section, header_data, line, line_num,
                   in_footer, root, max_depth, returned, output_file>>

(***************************************************************************)
(* create_diggs_xml: the values its steps compute.                         *)
(***************************************************************************)
\* f"{v:.6f}"
Format6f(v) == Format2f(v) \o <<"0", "0", "0", "0">>

\* float(s) of a str: the exception it raises, "none" when it returns
FloatError(s) == IF IsFloat(s) THEN "none" ELSE "ValueError"

\* a try statement that catches nothing
CatchesNothing == {}

\* add_reference_point, line 205: except ValueError
ReferencePointCatches == {"ValueError"}

\* add_center_line, line 254: except (ValueError, IndexError)
CenterLineCatches == {"ValueError", "IndexError"}

\* the exception leaves the try statement that catches `catches`
Escapes(error, catches) == error # "none" /\ error \notin catches

\* add_reference_point: what lines 199-201 raise
ReferencePointError(hd) ==
    IF FloatError(DictGet(hd, Latitude_Modem, <<"0">>)) # "none"
    THEN FloatError(DictGet(hd, Latitude_Modem, <<"0">>))
    ELSE IF FloatError(DictGet(hd, Longitude_Modem, <<"0">>)) # "none"
    THEN FloatError(DictGet(hd, Longitude_Modem, <<"0">>))
    ELSE FloatError(DictGet(hd, Altitude_Modem, <<"0">>))

\* add_center_line: what lines 240-249 raise
CenterLineError(hd, rows) ==
    IF rows # << >> /\ Len(rows[Len(rows)]) > 1
    THEN IF FloatError(rows[Len(rows)][2]) # "none"
         THEN FloatError(rows[Len(rows)][2])
         ELSE FloatError(DictGet(hd, Altitude_Modem, <<"0">>))
    ELSE "none"

\* add_sampling_feature raises: add_reference_point and add_center_line are
\* its sub-steps whose handlers name the exceptions they catch; the other
\* sub-steps catch Exception
SamplingFeatureRaises(hd, rows) ==
    \/ Escapes(ReferencePointError(hd), ReferencePointCatches)
    \/ Escapes(CenterLineError(hd, rows), CenterLineCatches)

\* add_reference_point: the text of gml:pos
ReferencePoint(hd) ==
    LET lat == DictGet(hd, Latitude_Modem, <<"0">>)
        lon == DictGet(hd, Longitude_Modem, <<"0">>)
        alt == DictGet(hd, Altitude_Modem, <<"0">>)
    IN  IF IsFloat(lat) /\ IsFloat(lon) /\ IsFloat(alt)
        THEN Format6f(Float(lat)) \o <<" ">> \o Format6f(Float(lon))
             \o <<" ">> \o Format2f(Float(alt))
        ELSE DefaultCoordinates

\* end_alt = -(alt_float - depth_float)
EndAltitude(alt_float, depth_float) == 0 - (alt_float - depth_float)

\* f"{end_alt}": the negation of a zero difference is the float -0.0
EndAltitudeStr(alt_float, depth_float) ==
    IF EndAltitude(alt_float, depth_float) = 0
    THEN <<"-", "0", ".", "0">>
    ELSE FloatStr(EndAltitude(alt_float, depth_float))

\* add_center_line: the third coordinate of the end position
CenterLineEnd(hd, rows) ==
    LET alt == DictGet(hd, Altitude_Modem, <<"0">>)
    IN  IF rows # << >> /\ Len(rows[Len(rows)]) > 1
        THEN LET depth_value == rows[Len(rows)][2]
             IN  IF IsFloat(depth_value) /\ IsFloat(alt)
                 THEN EndAltitudeStr(Float(alt), Float(depth_value))
                 ELSE DefaultEndAltitude
        ELSE DefaultEndAltitude

\* add_center_line: the text of gml:posList
CenterLine(hd, rows) ==
    LET lat == DictGet(hd, Latitude_Modem, <<"0">>)
        lon == DictGet(hd, Longitude_Modem, <<"0">>)
        alt == DictGet(hd, Altitude_Modem, <<"0">>)
    IN  lat \o <<" ">> \o lon \o <<" ">> \o alt \o <<" ">>
        \o lat \o <<" ">> \o lon \o <<" ">> \o CenterLineEnd(hd, rows)

\* the row contributes to valid_depths
HasValidDepth(row) == Len(row) > 1 /\ IsFloat(row[2])

\* valid_depths of add_total_measured_depth and add_construction_method
RECURSIVE ValidDepths(_)
ValidDepths(rows) ==
    IF rows = << >> THEN << >>
    ELSE (IF HasValidDepth(Head(rows))
          THEN <<Abs(Float(Head(rows)[2]))>> ELSE << >>)
         \o ValidDepths(Tail(rows))

\* max_depth, in hundredths; 10.0 is the default
MaxDepth(rows) ==
    IF rows = << >> THEN 1000
    ELSE IF ValidDepths(rows) = << >> THEN 1000
    ELSE MaxOf(ValidDepths(rows))

\* add_total_measured_depth: the text of totalMeasuredDepth
TotalMeasuredDepth(rows) == Format2f(MaxDepth(rows))

\* parse_client_info: <<make, model>>; header values are str, so the
\* isinstance branch is not taken
parse_client_info(client_info) ==
    LET parts == SplitWhitespace(client_info)
    IN  IF Len(parts) >= 2
        THEN <<parts[1], Join(Tail(parts), <<" ">>)>>
        ELSE <<client_info, Unknown>>

\* add_construction_equipment: the DrillRig element
DrillRig(hd) ==
    LET client_info == Strip(DictGet(hd, Client, << >>))
        mm == parse_client_info(client_info)
    IN  [id |-> RemoveSpaces(client_info), name |-> client_info,
         make |-> mm[1], modelNumber |-> mm[2]]

\* add_parameters: the two lists the loop zips
PropertyLists(pd) ==
    IF "parameter_names" \notin DOMAIN pd \/ "parameter_units" \notin DOMAIN pd
    THEN <<<<Depth>>, <<<<"m">>>>>>
    ELSE LET min_len == Min(Len(pd["parameter_names"]), Len(pd["parameter_units"]))
         IN  <<Take(pd["parameter_names"], min_len),
               Take(pd["parameter_units"], min_len)>>

\* property_classes.get(name, 'missing')
PropertyClass(name) ==
    CASE name = Depth -> "measured_depth"
      [] name = RateOfPenetration -> "penetration_rate"
      [] name = RotationShaft -> "rotation_shaft"
      [] name = RotationTool -> "rotation_tool"
      [] name = Flow -> "fluid_injection_volume_rate"
      [] name = PressureFlush -> "fluid_injection_pressure"
      [] name = PressurePulldown -> "crowd_pressure"
      [] name = RotationTach -> "rotation_tach"
      [] name = TorqueTach -> "torque_tach"
      [] name = Gear -> "gear_number"
      [] name = AugerOD -> "auger_od"
      [] name = RockCoreSize -> "core_size"
      [] name = StopDepth -> "stop_depth"
      [] OTHER -> "missing"

\* one Property element; uom is left out for the unit '-'
Property(index, name, unit) ==
    [id |-> PROP \o NatToStr(index), index |-> NatToStr(index),
     propertyName |-> name, typeData |-> "double",
     propertyClass |-> PropertyClass(name),
     uom |-> IF unit # <<"-">> THEN <<unit>> ELSE << >>,
     nullValue |-> "9999"]

\* add_parameters: the loop over zip(parameter_names, parameter_units)
RECURSIVE PropertyLoop(_, _, _)
PropertyLoop(names, units, index) ==
    IF names = << >> \/ units = << >> THEN << >>
    ELSE IF Head(names) = Datum
    THEN PropertyLoop(Tail(names), Tail(units), index)
    ELSE <<Property(index, Head(names), Head(units))>>
         \o PropertyLoop(Tail(names), Tail(units), index + 1)

Properties(pd) ==
    PropertyLoop(PropertyLists(pd)[1], PropertyLists(pd)[2], 1)

\* ['0.0'] * n joined by ','
RECURSIVE Zeros(_)
Zeros(n) ==
    IF n <= 0 THEN << >>
    ELSE IF n = 1 THEN ZeroValue
    ELSE ZeroValue \o <<",">> \o Zeros(n - 1)

\* add_data_values: the line of one row
DataValueRow(rows, row) ==
    IF Len(row) > 1
    THEN Join(Drop(row, 1), <<",">>)
    ELSE Zeros(IF rows # << >> /\ Len(rows[1]) > 1 THEN Len(rows[1]) - 1 ELSE 1)

\* add_data_values: data_value_rows
DataValueRows(rows) == [i \in 1..Len(rows) |-> DataValueRow(rows, rows[i])]

\* add_data_values: the text of dataValues
DataValues(rows) ==
    IF DataValueRows(rows) # << >>
    THEN Join(DataValueRows(rows), <<"\n">>)
    ELSE DefaultDataValues

\* f"{i:02d}"
TwoDigits(i) == IF i < 10 THEN <<"0">> \o NatToStr(i) ELSE NatToStr(i)

\* add_time_domain: timestamps; i is the 0-based index of the row
Timestamps(rows) ==
    [i \in 1..Len(rows) |->
        IF Len(rows[i]) > 0 THEN Strip(rows[i][1])
        ELSE PlaceholderPrefix \o TwoDigits(i - 1)]

\* a variant of Wrapped that puts every timestamp into one group
WrappedUnsplit(timestamps) == <<Join(timestamps, <<" ">>)>>

\* timestamps[i:i+5] for i in range(0, len(timestamps), 5), each joined by ' '
RECURSIVE Wrapped(_)
Wrapped(timestamps) ==
    IF timestamps = << >> THEN << >>
    ELSE <<Join(Take(timestamps, 5), <<" ">>)>> \o Wrapped(Drop(timestamps, 5))

\* add_time_domain: the text of timePositionList
TimePositionList(rows) ==
    IF Timestamps(rows) # << >>
    THEN Join(Wrapped(Timestamps(rows)), TimeGroupSeparator)
    ELSE DefaultTimestamp

(***************************************************************************)
(* main, up to the parse loop.                                             *)
(***************************************************************************)
\* a variant of Main without the os.path.exists test
MainWithoutExistsTest ==
    /\ pc = "start"
    /\ entry = "main"
    /\ pc' = "open"
    /\ UNCHANGED <<entry, input_file, section, header_data, parameter_data,
                   data_rows, line, line_num, in_footer, root, max_depth,
                   returned, output_file>>

Main ==
    /\ pc = "start"
    /\ entry = "main"
    /\ IF input_file = "missing"
       THEN pc' = "done" /\ returned' = "False"
       ELSE pc' = "open" /\ returned' = returned
    /\ UNCHANGED <<entry, input_file, section, header_data, parameter_data,
                   data_rows, line, line_num, in_footer, root, max_depth,
                   output_file>>

\* parse_input_file, line 35: open() raises into the except clause of line 105
OpenFile ==
    /\ pc = "open"
    /\ IF input_file = "unreadable"
       THEN /\ parameter_data' = FallbackParameters(parameter_data)
            /\ data_rows' = FallbackRows(data_rows)
            /\ pc' = "parsed"
       ELSE /\ pc' = "loop"
            /\ UNCHANGED <<parameter_data, data_rows>>
    /\ UNCHANGED <<entry, input_file, section, header_data, line, line_num,
                   in_footer, root, max_depth, returned, output_file>>

(***************************************************************************)
(* create_diggs_xml called on its own, with these arguments.               *)
(***************************************************************************)
WithOptional(d, key, opt) == IF opt = << >> THEN d ELSE DictSet(d, key, opt[1])

HeaderArgs ==
    { WithOptional(EmptyDict, Altitude_Modem, a) :
        a \in { << >>, << <<"5">> >>, << <<"1", "2", ".", "3">> >>, << <<"x">> >> } }
    \cup
    { DictSet(EmptyDict, Client, c) :
        c \in { << >>, <<"S", "o", "l", "o">>,
                <<"A", "C", "M", "E", " ", " ", "X", "1", " ", "b">> } }
    \cup
    { DictSet(EmptyDict, BoreholeID, <<"B", "1">>) }

SchemaArgs ==
    { EmptyDict,
      DictSet(EmptyDict, "parameter_names", <<Datum, Depth>>),
      DictSet(DictSet(EmptyDict, "parameter_names", <<Datum, Depth, <<"F">>>>),
              "parameter_units", <<<<"-">>, <<"m">>, <<"-">>>>),
      DictSet(DictSet(EmptyDict, "parameter_names", <<Depth, Datum, <<"F">>>>),
              "parameter_units", <<<<"m">>, <<"-">>>>) }

RowArgs ==
    { <<<<"t", "0">>, <<"5", ".", "0">>>>,
      <<<<"t", "1">>, <<"-", "1", "2", ".", "3">>>>,
      <<<<"t", "2">>, <<"b", "a", "d">>>>,
      <<<<"t", "3">>, <<"-", "2">>, <<"7">>>>,
      <<<< >>, <<"7">>>>,
      <<<<"x">>>>,
      << >> }

RowListArgs == UNION { [1..n -> RowArgs] : n \in 0..MaxRows }

CallCreateDiggsXml(hd, pd, rows) ==
    /\ pc = "start"
    /\ entry = "create_diggs_xml"
    /\ header_data' = hd
    /\ parameter_data' = pd
    /\ data_rows' = rows
    /\ pc' = "parsed"
    /\ UNCHANGED <<entry, input_file, section, line, line_num, in_footer,
                   root, max_depth, returned, output_file>>

DirectCall ==
    /\ pc = "start"
    /\ entry = "create_diggs_xml"
    /\ \E hd \in HeaderArgs, pd \in SchemaArgs, rows \in RowListArgs :
          CallCreateDiggsXml(hd, pd, rows)

(***************************************************************************)
(* create_diggs_xml: its four steps, each appending one child to the root. *)
(***************************************************************************)
\* date.today().isoformat(): the day of the run
Dates == {"2026-11-03", "2026-11-04"}

add_document_information ==
    /\ pc = "parsed"
    /\ \E today \in Dates :
          root' = <<[tag |-> "documentInformation",
                     id |-> <<"m", "w", "d", "_", "g", "u", "h", "_", "2", "_",
                              "D", "I", "G", "G", "S">>,
                     creationDate |-> today]>>
    /\ pc' = "add_project_information"
    /\ UNCHANGED <<entry, input_file, section, header_data, parameter_data,
                   data_rows, line, line_num, in_footer, max_depth, returned,
                   output_file>>

\* a variant of add_project_information that appends no child
skip_project_information ==
    /\ pc = "add_project_information"
    /\ pc' = "add_sampling_feature"
    /\ UNCHANGED <<entry, input_file, section, header_data, parameter_data,
                   data_rows, line, line_num, in_footer, root, max_depth,
                   returned, output_file>>

add_project_information ==
    /\ pc = "add_project_information"
    /\ root' = Append(root,
                 [tag |-> "project", id |-> P1,
                  contractor |-> DictGet(header_data, Contractor, << >>)])
    /\ pc' = "add_sampling_feature"
    /\ UNCHANGED <<entry, input_file, section, header_data, parameter_data,
                   data_rows, line, line_num, in_footer, max_depth, returned,
                   output_file>>

\* the Borehole element with what its six sub-steps add
Borehole(hd, rows) ==
    [tag |-> "samplingFeature",
     id |-> ID_PREFIX \o DictGet(hd, BoreholeID, Unknown),
     name |-> DictGet(hd, BoreholeID, << >>),
     projectRef |-> <<"#">> \o P1,
     referencePoint |-> ReferencePoint(hd),
     centerLine |-> CenterLine(hd, rows),
     centerLineEnd |-> CenterLineEnd(hd, rows),
     totalMeasuredDepth |-> TotalMeasuredDepth(rows),
     casing |-> ID_PREFIX \o DictGet(hd, BoreholeID, Unknown) \o CASING_SUFFIX,
     constructionMethod |-> DictGet(hd, BoreholeID, Unknown) \o CONS_METHOD_SUFFIX,
     methodExtent |-> DictGet(hd, BoreholeID, Unknown) \o CONS_METHOD_LE_SUFFIX,
     methodDepth |-> <<"0", " ">> \o Format2f(MaxDepth(rows)),
     drillRig |-> DrillRig(hd)]

add_sampling_feature ==
    /\ pc = "add_sampling_feature"
    /\ IF SamplingFeatureRaises(header_data, data_rows)
       THEN /\ pc' = "raised"
            /\ root' = root
       ELSE /\ root' = Append(root, Borehole(header_data, data_rows))
            /\ pc' = "add_measurement_data"
    /\ UNCHANGED <<entry, input_file, section, header_data, parameter_data,
                   data_rows, line, line_num, in_footer, max_depth, returned,
                   output_file>>

\* a variant of Measurement whose samplingFeatureRef has no 'Unknown' default
MeasurementRefWithoutDefault(hd, pd, rows) ==
    [tag |-> "measurement",
     id |-> ID_PREFIX \o DictGet(hd, ID, Unknown),
     name |-> DictGet(hd, ID, << >>),
     projectRef |-> <<"#">> \o P1,
     samplingFeatureRef |-> <<"#">> \o ID_PREFIX \o DictGet(hd, BoreholeID, << >>),
     timePositionList |-> TimePositionList(rows),
     properties |-> Properties(pd),
     dataValues |-> DataValues(rows)]

\* the MeasurementWhileDrilling element with its MWDResult
Measurement(hd, pd, rows) ==
    [tag |-> "measurement",
     id |-> ID_PREFIX \o DictGet(hd, ID, Unknown),
     name |-> DictGet(hd, ID, << >>),
     projectRef |-> <<"#">> \o P1,
     samplingFeatureRef |-> <<"#">> \o ID_PREFIX \o DictGet(hd, BoreholeID, Unknown),
     timePositionList |-> TimePositionList(rows),
     properties |-> Properties(pd),
     dataValues |-> DataValues(rows)]

\* a variant of AfterAddParameters that cuts the lists of the dict itself
TruncatedInPlace(pd) ==
    IF {"parameter_names", "parameter_units"} \subseteq DOMAIN pd
    THEN [k \in DOMAIN pd |->
            Take(pd[k], Min(Len(pd["parameter_names"]), Len(pd["parameter_units"])))]
    ELSE pd

\* parameter_data after add_parameters: lines 539-550 bind the local names to
\* new lists and slices, the dict of the caller keeps its lists
AfterAddParameters(pd) == pd

add_measurement_data ==
    /\ pc = "add_measurement_data"
    /\ root' = Append(root, Measurement(header_data, parameter_data, data_rows))
    /\ parameter_data' = AfterAddParameters(parameter_data)
    /\ pc' = "built"
    /\ UNCHANGED <<entry, input_file, section, header_data,
                   data_rows, line, line_num, in_footer, max_depth, returned,
                   output_file>>

\* main, lines 657-672: serialise the tree, write it, return True;
\* create_diggs_xml called on its own returns the root
Finish ==
    /\ pc = "built"
    /\ entry \in {"main", "create_diggs_xml"}
    /\ IF entry = "main"
       THEN output_file' = root /\ returned' = "True"
       ELSE UNCHANGED <<output_file, returned>>
    /\ pc' = "done"
    /\ UNCHANGED <<entry, input_file, section, header_data, parameter_data,
                   data_rows, line, line_num, in_footer, root, max_depth>>

(***************************************************************************)
(* Hatlapa_Format(.guh)/converter.py                                       *)
(***************************************************************************)
Init ==
    /\ pc = "start"
    /\ \/ entry = "main" /\ input_file \in {"ok", "missing", "unreadable"}
       \/ entry = "create_diggs_xml" /\ input_file = "ok"
    /\ section = "none"
    /\ header_data = EmptyDict
    /\ parameter_data = EmptyDict
    /\ data_rows = << >>
    /\ line = << >>
    /\ line_num = 0
    /\ in_footer = FALSE
    /\ root = << >>
    /\ max_depth = 0
    /\ returned = "none"
    /\ output_file = "absent"

Next ==
    \/ Main
    \/ OpenFile
    \/ Loop
    \/ DecodeError
    \/ ExceptClause
    \/ EndOfFile
    \/ DirectCall
    \/ add_document_information
    \/ add_project_information
    \/ add_sampling_feature
    \/ add_measurement_data
    \/ Finish

Spec == Init /\ [][Next]_vars

(***************************************************************************)
(* converter.py, the module-level script.                                  *)
(***************************************************************************)
L_contractor == Contractor \o <<"=", "C">>
L_borehole == BoreholeID \o <<"=", "B", "1">>
L_names2 == Datum \o <<";">> \o Depth

LegacyLines ==
    { HEADER_MARK, PARAMETER_MARK, DATA_MARK, L_contractor, L_borehole,
      L_rock, L_names2, L_units, L_row3, L_short }

\* line 27: open() of a file that is not there raises, and nothing catches it
LegacyOpen ==
    /\ pc = "start"
    /\ entry = "script"
    /\ pc' = IF input_file = "ok" THEN "loop" ELSE "crashed"
    /\ UNCHANGED <<entry, input_file, section, header_data, parameter_data,
                   data_rows, line, line_num, in_footer, root, max_depth,
                   returned, output_file>>

LegacyNextSection(sec, s) ==
    IF StartsWith(s, HEADER_MARK) THEN "header"
    ELSE IF StartsWith(s, PARAMETER_MARK) THEN "parameter"
    ELSE IF StartsWith(s, DATA_MARK) THEN "data"
    ELSE IF StartsWith(s, FOOTER_MARK) THEN "footer"
    ELSE sec

LegacyIsMarker(s) ==
    \/ StartsWith(s, HEADER_MARK)
    \/ StartsWith(s, PARAMETER_MARK)
    \/ StartsWith(s, DATA_MARK)
    \/ StartsWith(s, FOOTER_MARK)

\* key, value = line.split('=') raises ValueError unless there are two parts
LegacyHeaderRaises(s) == Contains(s, "=") /\ Len(Split(s, "=")) # 2

LegacyHeaderLine(hd, s) ==
    IF Contains(s, "=")
    THEN DictSet(hd, Split(s, "=")[1], Split(s, "=")[2])
    ELSE hd

\* float(row[1]) raises ValueError
LegacyDataRaises(s) ==
    Len(Split(s, ";")) > 1 /\ ~IsFloat(Split(s, ";")[2])

\* row[1] = str(abs(float(row[1]))); data_rows.append(row)
LegacyDataLine(rows, s) ==
    LET row == Split(s, ";")
    IN  IF Len(row) > 1
        THEN Append(rows, [row EXCEPT ![2] = FloatStr(Abs(Float(row[2])))])
        ELSE Append(rows, row)

LegacyReadLine(l) ==
    /\ pc = "loop"
    /\ entry = "script"
    /\ line_num < MaxLegacyLines
    /\ LET s == Strip(l)
           dispatch == ~LegacyIsMarker(s)
           raises == /\ dispatch
                     /\ \/ section = "header" /\ LegacyHeaderRaises(s)
                        \/ section = "data" /\ LegacyDataRaises(s)
       IN  IF raises
           THEN /\ pc' = "crashed"
                /\ UNCHANGED <<section, header_data, parameter_data, data_rows>>
           ELSE /\ pc' = pc
                /\ section' = LegacyNextSection(section, s)
                /\ header_data' =
                     IF dispatch /\ section = "header"
                     THEN LegacyHeaderLine(header_data, s) ELSE header_data
                /\ parameter_data' =
                     IF dispatch /\ section = "parameter"
                     THEN ParameterLine(parameter_data, s) ELSE parameter_data
                /\ data_rows' =
                     IF dispatch /\ section = "data"
                     THEN LegacyDataLine(data_rows, s) ELSE data_rows
    /\ in_footer' = FooterAfter(in_footer, Strip(l))
    /\ line' = l
    /\ line_num' = line_num + 1
    /\ UNCHANGED <<entry, input_file, root, max_depth, returned, output_file>>

\* for line in file
LegacyLoop == pc = "loop" /\ \E l \in LegacyLines : LegacyReadLine(l)

\* the depths line 56 takes the max of
RECURSIVE LegacyDepths(_)
LegacyDepths(rows) ==
    IF rows = << >> THEN << >>
    ELSE (IF Len(Head(rows)) > 1
          THEN <<Abs(Float(Head(rows)[2]))>> ELSE << >>)
         \o LegacyDepths(Tail(rows))

\* end of the loop, then line 56: max() of an empty sequence raises ValueError
LegacyMaxDepth ==
    /\ pc = "loop"
    /\ entry = "script"
    /\ IF LegacyDepths(data_rows) = << >>
       THEN pc' = "crashed" /\ max_depth' = max_depth
       ELSE pc' = "build" /\ max_depth' = MaxOf(LegacyDepths(data_rows))
    /\ UNCHANGED <<entry, input_file, section, header_data, parameter_data,
                   data_rows, line, line_num, in_footer, root, returned,
                   output_file>>

\* lines 176-229: enumerate(zip(names, units), start=1); uom is added in the
\* else branch of the propertyClass chain only
LegacyPropertyClass(name) ==
    CASE name = Depth -> "depth"
      [] name = RateOfPenetration -> "rate_of_penetration"
      [] name = RotationShaft -> "rotation_shaft"
      [] name = RotationTool -> "rotation_tool"
      [] name = Fow -> "flow_rate"
      [] name = PressureFlush -> "pressure_flush"
      [] name = PressurePulldown -> "pressure_pulldown"
      [] name = RotationTach -> "rotation_tach"
      [] name = TorqueTach -> "torque_tach"
      [] OTHER -> "missing"

LegacyProperty(i, name, unit) ==
    [id |-> PROP \o NatToStr(i), index |-> NatToStr(i), propertyName |-> name,
     typeData |-> "double",
     propertyClass |-> LegacyPropertyClass(name),
     uom |-> IF LegacyPropertyClass(name) = "missing" /\ unit # <<"-">>
             THEN <<unit>> ELSE << >>,
     nullValue |-> "9999"]

LegacyProperties(pd) ==
    IF "parameter_names" \in DOMAIN pd /\ "parameter_units" \in DOMAIN pd
    THEN [i \in 1..Min(Len(pd["parameter_names"]), Len(pd["parameter_units"])) |->
            LegacyProperty(i, pd["parameter_names"][i], pd["parameter_units"][i])]
    ELSE << >>

\* lines 234-238: rows of at least 3 fields, without timestamp and depth
RECURSIVE LegacyDataValueRows(_)
LegacyDataValueRows(rows) ==
    IF rows = << >> THEN << >>
    ELSE (IF Len(Head(rows)) >= 3
          THEN <<Join(Drop(Head(rows), 2), <<",">>)>> ELSE << >>)
         \o LegacyDataValueRows(Tail(rows))

LegacyDataValues(rows) == Join(LegacyDataValueRows(rows), <<"\n">>)

LegacyDocument(hd, pd, rows, depth) ==
    << [tag |-> "documentInformation"],
       [tag |-> "project", id |-> P1, contractor |-> hd[Contractor]],
       [tag |-> "samplingFeature", name |-> hd[BoreholeID],
        totalMeasuredDepth |-> Format2f(depth)],
       [tag |-> "measurement",
        properties |-> LegacyProperties(pd),
        dataValues |-> LegacyDataValues(rows)] >>

\* lines 58-245: header_data['Contractor'] and header_data['BoreholeID'] raise
\* KeyError when the key is absent
LegacyBuild ==
    /\ pc = "build"
    /\ IF Contractor \in DOMAIN header_data /\ BoreholeID \in DOMAIN header_data
       THEN /\ root' = LegacyDocument(header_data, parameter_data, data_rows,
                                      max_depth)
            /\ output_file' = root'
            /\ pc' = "done"
       ELSE /\ pc' = "crashed"
            /\ UNCHANGED <<root, output_file>>
    /\ UNCHANGED <<entry, input_file, section, header_data, parameter_data,
                   data_rows, line, line_num, in_footer, max_depth, returned>>

InitLegacy ==
    /\ pc = "start"
    /\ entry = "script"
    /\ input_file \in {"ok", "missing"}
    /\ section = "none"
    /\ header_data = EmptyDict
    /\ parameter_data = EmptyDict
    /\ data_rows = << >>
    /\ line = << >>
    /\ line_num = 0
    /\ in_footer = FALSE
    /\ root = << >>
    /\ max_depth = 0
    /\ returned = "none"
    /\ output_file = "absent"

NextLegacy ==
    \/ LegacyOpen
    \/ LegacyLoop
    \/ LegacyMaxDepth
    \/ LegacyBuild

SpecLegacy == InitLegacy /\ [][NextLegacy]_vars

(***************************************************************************)
(* converter.py, the module-level script, on files that have blank lines.  *)
(***************************************************************************)
LegacyBlankLines ==
    { HEADER_MARK, PARAMETER_MARK, DATA_MARK, L_contractor, L_borehole,
      L_blank, L_names, L_units, L_row3 }

\* for line in file
LegacyBlankLoop ==
    pc = "loop" /\ \E l \in LegacyBlankLines : LegacyReadLine(l)

NextLegacyBlank ==
    \/ LegacyOpen
    \/ LegacyBlankLoop
    \/ LegacyMaxDepth
    \/ LegacyBuild

SpecLegacyBlank == InitLegacy /\ [][NextLegacyBlank]_vars

(***************************************************************************)
(* create_diggs_xml called twice on the same three structures.             *)
(***************************************************************************)
\* the first call returns its root, which is kept in output_file; the second
\* call starts on the structures as the first call left them
SecondCall ==
    /\ pc = "built"
    /\ entry = "twice"
    /\ returned = "none"
    /\ output_file' = root
    /\ root' = << >>
    /\ returned' = "root"
    /\ pc' = "parsed"
    /\ UNCHANGED <<entry, input_file, section, header_data, parameter_data,
                   data_rows, line, line_num, in_footer, max_depth>>

\* the second call returns
SecondReturn ==
    /\ pc = "built"
    /\ entry = "twice"
    /\ returned = "root"
    /\ pc' = "done"
    /\ UNCHANGED <<entry, input_file, section, header_data, parameter_data,
                   data_rows, line, line_num, in_footer, root, max_depth,
                   returned, output_file>>

TwiceRowListArgs == UNION { [1..n -> RowArgs] : n \in 0..MaxTwiceRows }

InitTwice ==
    /\ pc = "parsed"
    /\ entry = "twice"
    /\ input_file = "ok"
    /\ section = "none"
    /\ header_data \in HeaderArgs
    /\ parameter_data \in SchemaArgs
    /\ data_rows \in TwiceRowListArgs
    /\ line = << >>
    /\ line_num = 0
    /\ in_footer = FALSE
    /\ root = << >>
    /\ max_depth = 0
    /\ returned = "none"
    /\ output_file = "absent"

NextTwice ==
    \/ add_document_information
    \/ add_project_information
    \/ add_sampling_feature
    \/ add_measurement_data
    \/ SecondCall
    \/ SecondReturn

SpecTwice == InitTwice /\ [][NextTwice]_vars

(***************************************************************************)
(* add_time_domain called on its own, with these rows.                     *)
(***************************************************************************)
TimeRowArgs ==
    { <<<<"t", "0">>, <<"5", ".", "0">>>>,
      <<<<" ", "t", "1", " ">>>>,
      << >> }

TimeRowListArgs == UNION { [1..n -> TimeRowArgs] : n \in 0..MaxTimeRows }

\* the timeDomain element of the MWDResult
TimeDomain(rows) ==
    [tag |-> "timeDomain", id |-> <<"t", "p", "l">>,
     timePositionList |-> TimePositionList(rows)]

add_time_domain ==
    /\ pc = "start"
    /\ entry = "add_time_domain"
    /\ root' = <<TimeDomain(data_rows)>>
    /\ pc' = "done"
    /\ UNCHANGED <<entry, input_file, section, header_data, parameter_data,
                   data_rows, line, line_num, in_footer, max_depth, returned,
                   output_file>>

InitTimeDomain ==
    /\ pc = "start"
    /\ entry = "add_time_domain"
    /\ input_file = "ok"
    /\ section = "none"
    /\ header_data = EmptyDict
    /\ parameter_data = EmptyDict
    /\ data_rows \in TimeRowListArgs
    /\ line = << >>
    /\ line_num = 0
    /\ in_footer = FALSE
    /\ root = << >>
    /\ max_depth = 0
    /\ returned = "none"
    /\ output_file = "absent"

NextTimeDomain == add_time_domain

SpecTimeDomain == InitTimeDomain /\ [][NextTimeDomain]_vars

(***************************************************************************)
(* Properties.                                                             *)
(***************************************************************************)
\* a step of the parse loop: one more line has been read
ReadStep == pc = "loop" /\ line_num' = line_num + 1

\* the line read by the step, stripped, is one of the four section markers
IsSectionMarker(s) ==
    \/ StartsWith(s, HEADER_MARK)
    \/ StartsWith(s, PARAMETER_MARK)
    \/ StartsWith(s, DATA_MARK)
    \/ StartsWith(s, FOOTER_MARK)

\* the child of the root with the given tag
HasChild(tag) == \E i \in 1..Len(root) : root[i].tag = tag
Child(tag) == root[CHOOSE i \in 1..Len(root) : root[i].tag = tag]

\* C1: once a line starting with [FOOTER] has been read, and until another
\* section marker is read, no line changes the header mapping, the parameter
\* lists or the data rows; the [FOOTER] line itself produces no data.
C1_FooterDiscardsLines ==
    [][ (ReadStep /\ in_footer')
        => /\ header_data' = header_data
           /\ parameter_data' = parameter_data
           /\ data_rows' = data_rows ]_vars

\* C2: a HEADER-section line that is neither blank nor a section marker and
\* contains '=' never raises and stores the trimmed text before the first '='
\* as key and the trimmed text after it as value.
C2_HeaderSplitsOnFirstEquals ==
    [][ (/\ ReadStep
         /\ section = "header"
         /\ ~IsSectionMarker(Strip(line'))
         /\ Contains(Strip(line'), "="))
        => LET parts == SplitFirst(Strip(line'), "=")
           IN  /\ pc' = "loop"
               /\ Strip(parts[1]) \in DOMAIN header_data'
               /\ header_data'[Strip(parts[1])] = Strip(parts[2]) ]_vars

\* C3: a DATA-section line that begins with 'Datum' or splits into fewer than
\* 2 fields is left out without stopping the parse; every other DATA-section
\* line is appended, as split, behind the rows read before it.
C3_DataRowsFiltered ==
    [][ (/\ ReadStep
         /\ section = "data"
         /\ ~IsSectionMarker(Strip(line')))
        => LET row == Split(Strip(line'), ";")
           IN  /\ pc' = "loop"
               /\ data_rows' = IF Len(row) < 2 \/ StartsWith(Strip(line'), Datum)
                               THEN data_rows
                               ELSE Append(data_rows, row) ]_vars

C5_MissingParametersDefaulted ==
    [][ (/\ pc = "loop" /\ pc' = "parsed"
         /\ \/ "parameter_names" \notin DOMAIN parameter_data
            \/ "parameter_units" \notin DOMAIN parameter_data)
        => /\ {"parameter_names", "parameter_units"} \subseteq DOMAIN parameter_data'
           /\ Len(parameter_data'["parameter_names"])
                = Len(parameter_data'["parameter_units"])
           /\ header_data' = header_data
           /\ (data_rows # << >> => data_rows' = data_rows) ]_vars

\* the depths the claim C6 takes the maximum of
RECURSIVE ClaimedDepths(_)
ClaimedDepths(rows) ==
    IF rows = << >> THEN << >>
    ELSE (IF Len(Head(rows)) >= 2 /\ IsFloat(Head(rows)[2])
          THEN <<Abs(Float(Head(rows)[2]))>> ELSE << >>)
         \o ClaimedDepths(Tail(rows))

ClaimedTotalDepth(rows) ==
    IF ClaimedDepths(rows) = << >> THEN <<"1", "0", ".", "0", "0">>
    ELSE Format2f(MaxOf(ClaimedDepths(rows)))

\* C6: the total measured depth is the maximum of abs(float(row[1])) over the
\* rows whose field 1 parses, rendered with two decimals, and 10.00 when no
\* row has a valid depth (the empty row list included); nothing aborts.
C6_TotalMeasuredDepth ==
    /\ [][ (pc = "loop" /\ line_num' = line_num) => pc' # "crashed" ]_vars
    /\ [](HasChild("samplingFeature")
            => Child("samplingFeature").totalMeasuredDepth
                 = ClaimedTotalDepth(data_rows))

\* C7: with a non-empty row list whose last row has a depth field, and
\* altitude and depth both numbers, the bottom altitude of the center line is
\* the surface altitude minus that depth; otherwise the default end is used.
C7_BottomAltitude ==
    HasChild("samplingFeature") =>
        LET alt == DictGet(header_data, Altitude_Modem, <<"0">>)
            last == data_rows[Len(data_rows)]
        IN  IF /\ data_rows # << >>
               /\ Len(last) >= 2
               /\ IsFloat(last[2]) /\ IsFloat(alt)
            THEN Float(Child("samplingFeature").centerLineEnd)
                   = Float(alt) - Float(last[2])
            ELSE Child("samplingFeature").centerLineEnd = DefaultEndAltitude

\* C8: with two or more whitespace-separated tokens in the Client field, make
\* is the first token and model the other tokens joined by single spaces;
\* with an empty or absent field, make and model are both 'Unknown'.
C8_MakeAndModel ==
    HasChild("samplingFeature") =>
        LET tokens == SplitWhitespace(DictGet(header_data, Client, << >>))
            rig == Child("samplingFeature").drillRig
        IN  /\ Len(tokens) >= 2 =>
                 /\ rig.make = tokens[1]
                 /\ rig.modelNumber = Join(Tail(tokens), <<" ">>)
            /\ Len(tokens) = 0 =>
                 /\ rig.make = Unknown
                 /\ rig.modelNumber = Unknown

\* the positions of the schema whose name is not 'Datum'
RECURSIVE NotDatum(_, _)
NotDatum(names, i) ==
    IF i > Len(names) THEN << >>
    ELSE (IF names[i] # Datum THEN <<i>> ELSE << >>) \o NotDatum(names, i + 1)

\* C9: the Property elements are the (name, unit) pairs of the schema whose
\* name is not 'Datum', in schema order, with the index attributes 1, 2, ..., k.
C9_PropertiesSkipDatum ==
    (/\ HasChild("measurement")
     /\ {"parameter_names", "parameter_units"} \subseteq DOMAIN parameter_data)
    => LET names == parameter_data["parameter_names"]
           units == parameter_data["parameter_units"]
           m == IF Len(names) < Len(units) THEN Len(names) ELSE Len(units)
           kept == NotDatum(SubSeq(names, 1, m), 1)
           props == Child("measurement").properties
       IN  /\ Len(props) = Len(kept)
           /\ \A k \in 1..Len(kept) :
                /\ props[k].propertyName = names[kept[k]]
                /\ props[k].index = NatToStr(k)

\* C10: the data-values block holds one line per data row, in row order, the
\* lines joined by a newline; the line of a row with at least 2 fields is its
\* fields from index 1 onward joined by commas.
C10_DataValues ==
    (HasChild("measurement") /\ data_rows # << >>)
    => LET lines == Split(Child("measurement").dataValues, "\n")
       IN  /\ Len(lines) = Len(data_rows)
           /\ \A i \in 1..Len(data_rows) :
                Len(data_rows[i]) >= 2
                  => lines[i] = Join(SubSeq(data_rows[i], 2, Len(data_rows[i])),
                                     <<",">>)

\* the rows of the list that have at least 2 fields, in list order
ValidRows(rows) == SelectSeq(rows, LAMBDA row : Len(row) >= 2)

\* the column count the claim C11 gives a synthetic line: that of the first
\* valid row of the list, 1 when the list holds none
ClaimedZeroColumns(rows) ==
    IF ValidRows(rows) = << >> THEN 1 ELSE Len(ValidRows(rows)[1]) - 1

\* C11: in the data-values block the line of a row with fewer than 2 fields
\* is all zeros, with as many columns as the first valid row of the list has
\* behind its timestamp, wherever that row sits, and one column when no row
\* is valid.
C11_SyntheticZeroRow ==
    (HasChild("measurement") /\ data_rows # << >>)
    => LET lines == Split(Child("measurement").dataValues, "\n")
       IN  /\ Len(lines) = Len(data_rows)
           /\ \A i \in 1..Len(data_rows) :
                Len(data_rows[i]) < 2
                  => lines[i] = Zeros(ClaimedZeroColumns(data_rows))

\* the entry of the time domain for the row at the 1-based position i: its
\* column 0 without surrounding whitespace, or the placeholder that ends in
\* the two-digit 0-based position
TimeEntry(rows, i) ==
    IF Len(rows[i]) > 0 THEN Strip(rows[i][1])
    ELSE <<"1", "9", "0", "0", "-", "0", "1", "-", "0", "1", "T",
           "0", "0", ":", "0", "0", ":">>
         \o <<DigitChars[((i - 1) \div 10) + 1], DigitChars[((i - 1) % 10) + 1]>>

\* the g-th group of five: the entries 5g-4 .. 5g, as far as there are rows
TimeGroup(rows, g) ==
    LET lo == 5 * g - 4
        hi == IF 5 * g < Len(rows) THEN 5 * g ELSE Len(rows)
    IN  Join([k \in 1..(hi - lo + 1) |-> TimeEntry(rows, lo + k - 1)], <<" ">>)

\* the groups of five, joined by sep
TimeGroups(rows, sep) ==
    Join([g \in 1..((Len(rows) + 4) \div 5) |-> TimeGroup(rows, g)], sep)

C13_AssemblyNeverRaises ==
    /\ pc # "raised"
    /\ (pc \in {"built", "done"} /\ entry = "create_diggs_xml") => root # << >>

\* create_diggs_xml has returned for a header with a non-numeric altitude, a
\* schema without units, a row without fields and a row with a non-numeric
\* depth
C13_Witness ==
    /\ pc = "done"
    /\ entry = "create_diggs_xml"
    /\ DictGet(header_data, Altitude_Modem, << >>) = <<"x">>
    /\ DOMAIN parameter_data = {"parameter_names"}
    /\ Len(data_rows) = 2
    /\ data_rows[1] = << >>
    /\ data_rows[2] = <<<<"t", "2">>, <<"b", "a", "d">>>>
    /\ Len(root) = 4

\* the tags of the children of the root, in document order
ChildTags == [i \in 1..Len(root) |-> root[i].tag]

\* C14: the root of the assembled document has exactly four children, in the
\* order documentInformation, project, samplingFeature, measurement.
C14_FourChildrenInOrder ==
    (pc = "built" \/ (pc = "done" /\ returned # "False"))
    => ChildTags = <<"documentInformation", "project", "samplingFeature",
                     "measurement">>

\* main has written the document of a file that could not be opened, every
\* structure being a default
C14_Witness ==
    /\ pc = "done"
    /\ entry = "main"
    /\ input_file = "unreadable"
    /\ parameter_data = DefaultParameters
    /\ data_rows = DefaultRows
    /\ Len(output_file) = 4

\* C15: main called with a path that does not exist returns False before any
\* parsing begins and leaves the output path alone.
C15_MissingInputFails ==
    (entry = "main" /\ input_file = "missing")
    => /\ pc \in {"start", "done"}
       /\ pc = "done" => returned = "False"
       /\ line_num = 0
       /\ header_data = EmptyDict /\ parameter_data = EmptyDict
       /\ data_rows = << >>
       /\ root = << >>
       /\ output_file = "absent"

\* main has returned False for a path that does not exist
C15_Witness ==
    /\ entry = "main"
    /\ input_file = "missing"
    /\ pc = "done"
    /\ returned = "False"

\* C16: when the input file exists but cannot be opened, main returns False
\* and writes no document built from default data.
C16_UnreadableInputFails ==
    (entry = "main" /\ input_file = "unreadable" /\ pc = "done")
    => /\ returned = "False"
       /\ output_file = "absent"

\* the document without its creation date
WithoutCreationDate(doc) ==
    [i \in 1..Len(doc) |->
        IF doc[i].tag = "documentInformation"
        THEN [doc[i] EXCEPT !.creationDate = "today"]
        ELSE doc[i]]

\* no step of create_diggs_xml changes header, schema or rows
InputsKept ==
    [][ (pc \in {"parsed", "add_project_information", "add_sampling_feature",
                 "add_measurement_data"})
        => /\ header_data' = header_data
           /\ parameter_data' = parameter_data
           /\ data_rows' = data_rows ]_vars

\* the second call has returned the document of the first, the creation date
\* apart
SecondDocumentSame ==
    (entry = "twice" /\ pc = "done")
    => WithoutCreationDate(root) = WithoutCreationDate(output_file)

C18_ReferencesResolve ==
    HasChild("measurement")
    => /\ Child("measurement").samplingFeatureRef
            = <<"#">> \o Child("samplingFeature").id
       /\ Child("measurement").projectRef = <<"#">> \o Child("project").id

\* the document of a header without BoreholeID refers to id_Unknown
C18_Witness ==
    /\ pc = "done"
    /\ BoreholeID \notin DOMAIN header_data
    /\ HasChild("measurement")
    /\ Child("measurement").samplingFeatureRef
         = <<"#", "i", "d", "_", "U", "n", "k", "n", "o", "w", "n">>

\* C19: an error on one line of the file does not take the parse out of its
\* loop; the lines behind it are still read.
C19_LineErrorSkipsLine ==
    [][ pc = "loop" => pc' \notin {"except", "crashed"} ]_vars

\* C20: the value stored for Latitude_Modem, Longitude_Modem or
\* Altitude_Modem is the trimmed value without its leading zeros, '0' when
\* nothing remains, also when whitespace follows the '='; the value of any
\* other key is the trimmed value.
C20_CoordinateZerosStripped ==
    [][ (/\ ReadStep
         /\ section = "header"
         /\ ~IsSectionMarker(Strip(line'))
         /\ Strip(line') # << >>
         /\ Contains(Strip(line'), "="))
        => LET parts == SplitFirst(Strip(line'), "=")
               key == Strip(parts[1])
               trimmed == Strip(parts[2])
           IN  /\ key \in DOMAIN header_data'
               /\ header_data'[key] =
                    IF key \in CoordinateKeys
                    THEN (IF LStripZeros(trimmed) = << >> THEN <<"0">>
                          ELSE LStripZeros(trimmed))
                    ELSE trimmed ]_vars

\* C21: in the PARAMETER section the first non-blank line becomes the name
\* list and the second the unit list; once both are set no line of the
\* section changes them, and no line of the section changes the header
\* mapping or the data rows.
C21_TwoParameterLines ==
    [][ (/\ ReadStep
         /\ section = "parameter"
         /\ ~IsSectionMarker(Strip(line')))
        => /\ header_data' = header_data
           /\ data_rows' = data_rows
           /\ parameter_data' =
                IF Strip(line') = << >>
                THEN parameter_data
                ELSE IF "parameter_names" \notin DOMAIN parameter_data
                THEN DictSet(parameter_data, "parameter_names",
                             Split(Strip(line'), ";"))
                ELSE IF "parameter_units" \notin DOMAIN parameter_data
                THEN DictSet(parameter_data, "parameter_units",
                             Split(Strip(line'), ";"))
                ELSE parameter_data ]_vars

\* a line of the data-values block made for the given row: the fields behind
\* column 0 joined by commas, or zeros only when the row has fewer than 2 fields
LineOfRow(text, row) ==
    IF Len(row) >= 2
    THEN text = Join(Tail(row), <<",">>)
    ELSE \A j \in 1..Len(Split(text, ",")) : Split(text, ",")[j] = ZeroValue

\* C22: the time domain holds as many timestamps as the data-values block
\* holds lines, and the i-th timestamp and the i-th line are made from the
\* same row of the list, for every list of rows, the empty one included.
C22_TimestampsMatchLines ==
    HasChild("measurement")
    => LET stamps == SplitWhitespace(Child("measurement").timePositionList)
           lines == Split(Child("measurement").dataValues, "\n")
       IN  /\ Len(stamps) = Len(lines)
           /\ \A i \in 1..Min(Len(stamps), Len(data_rows)) :
                /\ stamps[i] = TimeEntry(data_rows, i)
                /\ LineOfRow(lines[i], data_rows[i])

\* the gml:id attribute values of a document, in document order: Diggs,
\* DocumentInformation, Project, BusinessAssociate, Borehole, PointLocation,
\* LinearExtent, LinearSpatialReferenceSystem, LinearReferencingMethod,
\* Casing, BoreholeConstructionMethod and its LinearExtent, DrillRig,
\* CoringDevice, MeasurementWhileDrilling, MWDResult, TimePositionList,
\* PropertyParameters and every Property
GmlIds(doc) ==
    LET child(tag) == doc[CHOOSE i \in 1..Len(doc) : doc[i].tag = tag]
    IN  << <<"G", "i", "t", "h", "u", "b", "_", "E", "x", "p", "o", "r",
           "t", "e", "d">>,
           child("documentInformation").id,
           child("project").id,
           <<"b", "u", "s", "i", "n", "e", "s", "s", "A", "s", "s", "o",
           "c", "i", "a", "t", "e", "_", "3", "8", "9", "0", "8", "3", "1",
           "8", "7", "7", "4", "6", "6", "6", "5", "9", "_", "N", "u", "m",
           "_", "0">>,
           child("samplingFeature").id,
           <<"P", "o", "i", "n", "t", "_", "L", "o", "c", "a", "t", "i",
           "o", "n", "3", "8", "9", "0", "8", "3", "1", "8", "7", "7", "4",
           "6", "6", "6", "5", "9", "_", "N", "u", "m", "_", "0", "-", "p",
           "l">>,
           <<"L", "i", "n", "e", "a", "r", "_", "E", "x", "t", "e", "n",
           "t", "_", "0">>,
           <<"l", "r", "s">>,
           <<"L", "i", "n", "e", "a", "r", "_", "E", "x", "t", "e", "n",
           "t", "_", "0", "_">>,
           child("samplingFeature").casing,
           child("samplingFeature").constructionMethod,
           child("samplingFeature").methodExtent,
           child("samplingFeature").drillRig.id,
           <<"r", "o", "c", "k", "c", "o", "r", "e", "1">>,
           child("measurement").id,
           <<"m", "1">>,
           <<"t", "p", "l">>,
           <<"p", "a", "r", "a", "m", "s", "1">> >>
        \o [i \in 1..Len(child("measurement").properties) |->
               child("measurement").properties[i].id]

\* C23: in every document create_diggs_xml builds, the gml:id values are
\* pairwise distinct, whatever the header mapping holds for BoreholeID, ID
\* and Client.
C23_GmlIdsDistinct ==
    HasChild("measurement")
    => \A i, j \in 1..Len(GmlIds(root)) :
          i # j => GmlIds(root)[i] # GmlIds(root)[j]

====
